---- MODULE Spec2Model ----
(***************************************************************************)
(* Model of concat_csvs_to_parquet.py: main() discovers the yearly CSV     *)
(* partitions of DATA_DIR, stream_to_parquet() reads each one in chunks,   *)
(* tags every chunk with the year parsed from the file name and appends it *)
(* to one Parquet file through a lazily opened ParquetWriter.              *)
(*                                                                         *)
(* A file name is a sequence of one-character strings, so that the glob,   *)
(* the regular expression, int() and sorted() are computed on characters.  *)
(* The directory listing, the content of each file and the failures of the *)
(* file system are the environment: the listing is fixed in Init, a file's *)
(* header and row count are revealed when read_csv opens it, and each I/O  *)
(* call may raise.                                                         *)
(*                                                                         *)
(* The module binds the names pa and pq nowhere (the two pyarrow imports   *)
(* on lines 14-15 are comment lines), so a run of the file as a script     *)
(* raises NameError at line 48 on the first chunk.  pyarrowBound records   *)
(* whether the module namespace holds pa and pq when stream_to_parquet     *)
(* looks them up; both cases are explored.                                 *)
(***************************************************************************)
EXTENDS Integers, Sequences, FiniteSets

VARIABLES
    pc,            \* position of main(): see PcValues
    exc,           \* the exception in flight, "none" when there is none
    exit_status,   \* "running", "zero" or "nonzero"
    dirNames,      \* names of the files of DATA_DIR
    dataDirExists, \* DATA_DIR (= OUTPUT_PATH.parent) exists
    pyarrowBound,  \* the globals pa and pq resolve
    csv_files,     \* main's csv_files
    i,             \* 1-based position of csv_path in csv_files
    year,          \* stream_to_parquet's year
    reader,        \* the TextFileReader of the current partition
    contents,      \* what read_csv found in each partition opened so far
    writer,        \* stream_to_parquet's writer: "None", "open" or "closed"
    writerSchema,  \* the schema the ParquetWriter was constructed with
    artifact,      \* the file at OUTPUT_PATH
    total_rows,    \* stream_to_parquet's total_rows
    log,           \* the calls made on the output, in order: "mkdir", "open",
                   \* "write" (write_table) and "close"
    stdout         \* what was printed

vars == <<pc, exc, exit_status, dirNames, dataDirExists, pyarrowBound, csv_files,
          i, year, reader, contents, writer, writerSchema, artifact, total_rows,
          log, stdout>>

\* ------------------------------------------------------------------ bounds

\* At most this many files in DATA_DIR.
MaxFiles == 3
\* At most this many data rows in one partition.
MaxRows == 3
\* Rows per chunk; the program's value is 100000 (line 22), scaled down.
CHUNK_SIZE == 2

\* ------------------------------------------------------------- characters

Digits == <<"0", "1", "2", "3", "4", "5", "6", "7", "8", "9">>

\* The characters used by the file names, in code point order.
Alphabet == <<"\n", ".", "0", "1", "2", "3", "4", "5", "6", "7", "8", "9",
              "a", "b", "c", "f", "k", "l", "s", "u", "v", "x">>

Range(s) == {s[k] : k \in 1..Len(s)}

Ord(c) == CHOOSE k \in 1..Len(Alphabet) : Alphabet[k] = c

IsDigit(c) == c \in Range(Digits)

DigitValue(c) == (CHOOSE k \in 1..Len(Digits) : Digits[k] = c) - 1

Min(a, b) == IF a < b THEN a ELSE b

\* str.__lt__: the first differing character decides, a proper prefix is less.
StrLess(a, b) ==
    \E k \in 1..(Min(Len(a), Len(b)) + 1) :
        /\ \A j \in 1..(k - 1) : a[j] = b[j]
        /\ \/ k > Len(a) /\ k <= Len(b)
           \/ k <= Len(a) /\ k <= Len(b) /\ Ord(a[k]) < Ord(b[k])

\* "full.csv"
Suffix == <<"f", "u", "l", "l", ".", "c", "s", "v">>

EndsWith(name, tail) ==
    /\ Len(name) >= Len(tail)
    /\ SubSeq(name, Len(name) - Len(tail) + 1, Len(name)) = tail

\* ------------------------------------------------------------ file names

Y1999 == <<"1", "9", "9", "9">> \o Suffix
Y2020 == <<"2", "0", "2", "0">> \o Suffix
Y2021 == <<"2", "0", "2", "1">> \o Suffix

\* The names a directory is drawn from: three partitions, and names that are
\* close to the pattern: a 3-digit and a 5-digit token, a non-numeric token, no
\* token, a prefix before the year, a backup of a partition, a name with "x"
\* where the pattern has the dot, and a partition name followed by a newline.
Candidates ==
    { Y1999, Y2020, Y2021,
      <<"2", "0", "2">> \o Suffix,
      <<"2", "0", "2", "0", "1">> \o Suffix,
      <<"2", "0", "x", "0">> \o Suffix,
      Suffix,
      <<"a", "2", "0", "2", "0">> \o Suffix,
      Y2020 \o <<".", "b", "a", "k">>,
      <<"2", "0", "2", "2", "f", "u", "l", "l", "x", "c", "s", "v">>,
      Y2021 \o <<"\n">> }

\* DATA_DIR.glob("*full.csv"): fnmatch anchors the pattern at both ends and the
\* star matches any characters, so a name matches iff it ends with the suffix.
Glob(names) == {n \in names : EndsWith(n, Suffix)}

\* The pattern with \d+ for \d{4}: a year token of any width.
YEAR_PATTERN_any_width(name) ==
    /\ Len(name) > Len(Suffix)
    /\ \A k \in 1..(Len(name) - Len(Suffix)) : IsDigit(name[k])
    /\ EndsWith(name, Suffix)

\* YEAR_PATTERN.match(name) is not None, for ^(?P<year>\d{4})full\.csv$ :
\* four digits, the suffix, and then the end of the name or a single newline
\* that ends it (what $ accepts without re.MULTILINE).
YEAR_PATTERN(name) ==
    /\ Len(name) >= 4 + Len(Suffix)
    /\ \A k \in 1..4 : IsDigit(name[k])
    /\ SubSeq(name, 5, 4 + Len(Suffix)) = Suffix
    /\ \/ Len(name) = 4 + Len(Suffix)
       \/ Len(name) = 5 + Len(Suffix) /\ name[Len(name)] = "\n"

\* sorted(): ascending by <, here the order of the names (all the paths are in
\* DATA_DIR, so the paths compare as their names do).
RECURSIVE sorted(_)
sorted(S) ==
    IF S = {} THEN <<>>
    ELSE LET least == CHOOSE x \in S : \A y \in S \ {x} : StrLess(x, y)
         IN  <<least>> \o sorted(S \ {least})

\* find_csvs without sorted(): the glob's order, here the descending one.
find_csvs_unsorted ==
    LET s == sorted({p \in Glob(dirNames) : YEAR_PATTERN(p)})
    IN  [k \in 1..Len(s) |-> s[Len(s) + 1 - k]]

find_csvs == sorted({p \in Glob(dirNames) : YEAR_PATTERN(p)})

\* int() of a string of decimal digits.
RECURSIVE ParseInt(_)
ParseInt(s) ==
    IF s = <<>> THEN 0
    ELSE 10 * ParseInt(SubSeq(s, 1, Len(s) - 1)) + DigitValue(s[Len(s)])

\* year_from_name raises ValueError iff the pattern does not match.
year_from_name_raises(csv_path) == ~YEAR_PATTERN(csv_path)

year_from_name(csv_path) == ParseInt(SubSeq(csv_path, 1, 4))

\* ------------------------------------------------------------ partitions

\* The header rows a partition is drawn from.
Headers == { <<"id", "price">>, <<"id", "price", "area">>, <<"year", "id">> }

NoReader == [header |-> <<>>, nrows |-> 0, pos |-> 0, chunks |-> 0]

\* A reader that yields a chunk only while rows are left: none for a file that
\* holds only its header.
HasNextChunkRowsLeft(r) == r.pos < r.nrows

\* The TextFileReader has another chunk: rows are left, or nothing was yielded
\* yet (a file that holds only its header yields one chunk of zero rows).
HasNextChunk(r) == r.chunks = 0 \/ r.pos < r.nrows

\* The chunk read next: at most CHUNK_SIZE rows, in file order, every cell text.
NextChunk(csv_path, r) ==
    [columns |-> r.header,
     rows |-> [k \in 1..Min(CHUNK_SIZE, r.nrows - r.pos) |->
                 [src |-> csv_path, idx |-> r.pos + k,
                  cells |-> [c \in Range(r.header) |-> "text"]]]]

Advance(r, chunk) ==
    [r EXCEPT !.pos = r.pos + Len(chunk.rows), !.chunks = r.chunks + 1]

\* The year taken once, from the first file, instead of per csv_path.
TagYearOfFirst(chunk, y) ==
    [columns |-> IF "year" \in Range(chunk.columns) THEN chunk.columns
                 ELSE Append(chunk.columns, "year"),
     rows |-> [k \in 1..Len(chunk.rows) |->
                 [chunk.rows[k] EXCEPT !.cells =
                     [c \in Range(chunk.columns) \cup {"year"} |->
                         IF c = "year" THEN year_from_name(csv_files[1])
                         ELSE chunk.rows[k].cells[c]]]]]

\* chunk["year"] = year: an existing column of that name is overwritten in
\* place, otherwise the column is appended; every row gets the value.
TagYear(chunk, y) ==
    [columns |-> IF "year" \in Range(chunk.columns) THEN chunk.columns
                 ELSE Append(chunk.columns, "year"),
     rows |-> [k \in 1..Len(chunk.rows) |->
                 [chunk.rows[k] EXCEPT !.cells =
                     [c \in Range(chunk.columns) \cup {"year"} |->
                         IF c = "year" THEN y ELSE chunk.rows[k].cells[c]]]]]

\* pa.Table.from_pandas(chunk): the schema is the frame's columns, in order.
from_pandas(chunk) == [schema |-> chunk.columns, rows |-> chunk.rows]

\* The writer constructed for every table (the guard of line 49 dropped).
WriterIsNoneAlways(w) == TRUE

\* line 49
WriterIsNone(w) == w = "None"

\* total_rows += 1: chunks counted, not rows.
AddRowsOne(total, chunk) == total + 1

\* line 53
AddRows(total, chunk) == total + Len(chunk.rows)

\* write_table refuses a table whose schema is not the writer's.
SchemaMatches(table, schema) == table.schema = schema

NoArtifact == [exists |-> FALSE, finalized |-> FALSE, schema |-> <<>>, rows |-> <<>>]

\* line 55
MustClose(w) == w # "None"

\* A finally block that returns: the exception in flight is swallowed.
AfterFinallySwallow(e) == "report"

\* lines 54-58 and 66: stream_to_parquet returns iff no exception is in flight.
AfterFinally(e) == IF e = "none" THEN "report" ELSE "failed"

\* "if csv_files is None": never true of a list.
NoCsvFilesIsNone(files) == FALSE

\* line 63
NoCsvFiles(files) == files = <<>>

\* ------------------------------------------------------------------ state

PcValues == {"start", "found", "partition", "chunk", "finally", "report", "done", "failed"}

Init ==
    /\ pc = "start"
    /\ exc = "none"
    /\ exit_status = "running"
    /\ dataDirExists \in BOOLEAN
    /\ dirNames \in {S \in SUBSET Candidates :
                        /\ Cardinality(S) <= MaxFiles
                        /\ ~dataDirExists => S = {}}
    /\ pyarrowBound \in BOOLEAN
    /\ csv_files = <<>>
    /\ i = 0
    /\ year = 0
    /\ reader = NoReader
    /\ contents = <<>>
    /\ writer = "None"
    /\ writerSchema = <<>>
    /\ artifact = NoArtifact
    /\ total_rows = 0
    /\ log = <<>>
    /\ stdout = <<>>

Environment == <<dirNames, pyarrowBound>>
WriterState == <<writer, writerSchema, artifact, log>>

\* ----------------------------------------------------------------- main()

\* line 62: csv_files = find_csvs()
Discover ==
    /\ pc = "start"
    /\ csv_files' = find_csvs
    /\ pc' = "found"
    /\ UNCHANGED <<exc, exit_status, Environment, dataDirExists, i, year, reader,
                   contents, WriterState, total_rows, stdout>>

\* lines 63-64: raise SystemExit(message), which exits with status 1
NoPartitions ==
    /\ pc = "found"
    /\ NoCsvFiles(csv_files)
    /\ exc' = "SystemExit"
    /\ pc' = "failed"
    /\ exit_status' = "nonzero"
    /\ UNCHANGED <<Environment, dataDirExists, csv_files, i, year, reader, contents,
                   WriterState, total_rows, stdout>>

\* lines 66, 39-42: the call of stream_to_parquet up to the head of the loop
EnterStream ==
    /\ pc = "found"
    /\ ~NoCsvFiles(csv_files)
    /\ writer' = "None"
    /\ total_rows' = 0
    /\ i' = 1
    /\ pc' = "partition"
    /\ UNCHANGED <<exc, exit_status, Environment, dataDirExists, csv_files, year,
                   reader, contents, writerSchema, artifact, log, stdout>>

\* ---------------------------------------------------- stream_to_parquet()

\* lines 43-46: the next csv_path, its year, the message, and read_csv opening
\* the file and reading its header; read_csv raises on a file it cannot open or
\* that has no header.
OpenPartition ==
    /\ pc = "partition"
    /\ i <= Len(csv_files)
    /\ IF year_from_name_raises(csv_files[i])
       THEN /\ exc' = "ValueError"
            /\ pc' = "finally"
            /\ UNCHANGED <<year, stdout, reader, contents>>
       ELSE /\ year' = year_from_name(csv_files[i])
            /\ stdout' = Append(stdout, [msg |-> "Loading", arg |-> csv_files[i]])
            /\ \/ \E h \in Headers, n \in 0..MaxRows :
                    /\ reader' = [header |-> h, nrows |-> n, pos |-> 0, chunks |-> 0]
                    /\ contents' = Append(contents, [header |-> h, nrows |-> n])
                    /\ pc' = "chunk"
                    /\ exc' = exc
               \/ /\ exc' = "UnreadablePartition"
                  /\ pc' = "finally"
                  /\ UNCHANGED <<reader, contents>>
    /\ UNCHANGED <<exit_status, Environment, dataDirExists, csv_files, i, WriterState,
                   total_rows>>

\* line 43: csv_files is exhausted
Exhausted ==
    /\ pc = "partition"
    /\ i > Len(csv_files)
    /\ pc' = "finally"
    /\ UNCHANGED <<exc, exit_status, Environment, dataDirExists, csv_files, i, year,
                   reader, contents, WriterState, total_rows, stdout>>

Chunk == NextChunk(csv_files[i], reader)
Tagged == TagYear(Chunk, year)
Table == from_pandas(Tagged)

\* lines 49-51: the writer is constructed on the first table, with its schema;
\* the constructor creates (truncates) the file at OUTPUT_PATH.
Opening == WriterIsNone(writer)
SchemaAtWrite == IF Opening THEN Table.schema ELSE writerSchema
ArtifactAtWrite ==
    IF Opening
    THEN [exists |-> TRUE, finalized |-> FALSE, schema |-> Table.schema, rows |-> <<>>]
    ELSE artifact
\* line 50: mkdir(parents=True, exist_ok=True) of OUTPUT_PATH.parent, which is DATA_DIR
DirAtWrite == IF Opening THEN TRUE ELSE dataDirExists
LogAtWrite ==
    IF Opening THEN log \o <<"mkdir", "open", "write">> ELSE Append(log, "write")

\* line 46: the reader raises on the next chunk (a row of the wrong width)
ChunkUnreadable ==
    /\ pc = "chunk"
    /\ HasNextChunk(reader)
    /\ exc' = "UnreadablePartition"
    /\ pc' = "finally"
    /\ UNCHANGED <<exit_status, Environment, dataDirExists, csv_files, i, year, reader,
                   contents, WriterState, total_rows, stdout>>

\* lines 46-48: pa is not bound
ChunkNameError ==
    /\ pc = "chunk"
    /\ HasNextChunk(reader)
    /\ ~pyarrowBound
    /\ reader' = Advance(reader, Chunk)
    /\ exc' = "NameError"
    /\ pc' = "finally"
    /\ UNCHANGED <<exit_status, Environment, dataDirExists, csv_files, i, year,
                   contents, WriterState, total_rows, stdout>>

\* lines 46-51: the ParquetWriter constructor raises (the file cannot be created)
ChunkOpenFails ==
    /\ pc = "chunk"
    /\ HasNextChunk(reader)
    /\ pyarrowBound
    /\ Opening
    /\ reader' = Advance(reader, Chunk)
    /\ dataDirExists' = TRUE
    /\ log' = Append(log, "mkdir")
    /\ exc' = "WriteFailure"
    /\ pc' = "finally"
    /\ UNCHANGED <<exit_status, Environment, csv_files, i, year, contents, writer,
                   writerSchema, artifact, total_rows, stdout>>

\* lines 46-52: write_table raises ValueError, the table's schema is not the
\* writer's
ChunkSchemaRejected ==
    /\ pc = "chunk"
    /\ HasNextChunk(reader)
    /\ pyarrowBound
    /\ ~SchemaMatches(Table, SchemaAtWrite)
    /\ reader' = Advance(reader, Chunk)
    /\ dataDirExists' = DirAtWrite
    /\ writer' = "open"
    /\ writerSchema' = SchemaAtWrite
    /\ artifact' = ArtifactAtWrite
    /\ log' = LogAtWrite
    /\ exc' = "SchemaMismatch"
    /\ pc' = "finally"
    /\ UNCHANGED <<exit_status, Environment, csv_files, i, year, contents, total_rows,
                   stdout>>

\* lines 46-52: write_table raises on the file system (the disk is full)
ChunkWriteFails ==
    /\ pc = "chunk"
    /\ HasNextChunk(reader)
    /\ pyarrowBound
    /\ SchemaMatches(Table, SchemaAtWrite)
    /\ reader' = Advance(reader, Chunk)
    /\ dataDirExists' = DirAtWrite
    /\ writer' = "open"
    /\ writerSchema' = SchemaAtWrite
    /\ artifact' = ArtifactAtWrite
    /\ log' = LogAtWrite
    /\ exc' = "WriteFailure"
    /\ pc' = "finally"
    /\ UNCHANGED <<exit_status, Environment, csv_files, i, year, contents, total_rows,
                   stdout>>

\* lines 46-53: one turn of the inner loop
ChunkWritten ==
    /\ pc = "chunk"
    /\ HasNextChunk(reader)
    /\ pyarrowBound
    /\ SchemaMatches(Table, SchemaAtWrite)
    /\ reader' = Advance(reader, Chunk)
    /\ dataDirExists' = DirAtWrite
    /\ writer' = "open"
    /\ writerSchema' = SchemaAtWrite
    /\ artifact' = [ArtifactAtWrite EXCEPT !.rows = @ \o Table.rows]
    /\ log' = LogAtWrite
    /\ total_rows' = AddRows(total_rows, Tagged)
    /\ UNCHANGED <<pc, exc, exit_status, Environment, csv_files, i, year, contents,
                   stdout>>

\* line 46: the reader is exhausted, the outer loop goes on
EndOfPartition ==
    /\ pc = "chunk"
    /\ ~HasNextChunk(reader)
    /\ i' = i + 1
    /\ reader' = NoReader
    /\ pc' = "partition"
    /\ UNCHANGED <<exc, exit_status, Environment, dataDirExists, csv_files, year,
                   contents, WriterState, total_rows, stdout>>

Leave(e) ==
    /\ pc' = AfterFinally(e)
    /\ exit_status' = IF AfterFinally(e) = "failed" THEN "nonzero" ELSE exit_status

\* lines 54-55: no writer to close
FinallyNoWriter ==
    /\ pc = "finally"
    /\ ~MustClose(writer)
    /\ Leave(exc)
    /\ UNCHANGED <<exc, Environment, dataDirExists, csv_files, i, year, reader,
                   contents, WriterState, total_rows, stdout>>

\* lines 54-56: writer.close() writes the footer
FinallyClose ==
    /\ pc = "finally"
    /\ MustClose(writer)
    /\ writer' = "closed"
    /\ artifact' = [artifact EXCEPT !.finalized = TRUE]
    /\ log' = Append(log, "close")
    /\ Leave(exc)
    /\ UNCHANGED <<exc, Environment, dataDirExists, csv_files, i, year, reader,
                   contents, writerSchema, total_rows, stdout>>

\* lines 54-56: writer.close() raises, its exception replaces the one in flight
FinallyCloseFails ==
    /\ pc = "finally"
    /\ MustClose(writer)
    /\ log' = Append(log, "close")
    /\ exc' = "CloseFailure"
    /\ Leave("CloseFailure")
    /\ UNCHANGED <<Environment, dataDirExists, csv_files, i, year, reader, contents,
                   writer, writerSchema, artifact, total_rows, stdout>>

\* lines 58, 67-68: the two messages, and the exit with status 0
Report ==
    /\ pc = "report"
    /\ stdout' = stdout \o << [msg |-> "Combined rows written", arg |-> total_rows],
                              [msg |-> "Wrote Parquet to", arg |-> "OUTPUT_PATH"] >>
    /\ pc' = "done"
    /\ exit_status' = "zero"
    /\ UNCHANGED <<exc, Environment, dataDirExists, csv_files, i, year, reader,
                   contents, WriterState, total_rows>>

Next ==
    \/ Discover
    \/ NoPartitions
    \/ EnterStream
    \/ OpenPartition
    \/ Exhausted
    \/ ChunkUnreadable
    \/ ChunkNameError
    \/ ChunkOpenFails
    \/ ChunkSchemaRejected
    \/ ChunkWriteFails
    \/ ChunkWritten
    \/ EndOfPartition
    \/ FinallyNoWriter
    \/ FinallyClose
    \/ FinallyCloseFails
    \/ Report

Spec == Init /\ [][Next]_vars

\* ----------------------------------------------------------------- claims

RECURSIVE SumRows(_)
SumRows(c) == IF c = <<>> THEN 0 ELSE c[1].nrows + SumRows(Tail(c))

Count(seq, x) == Cardinality({k \in 1..Len(seq) : seq[k] = x})

Rows == artifact.rows

\* stream_to_parquet has returned: no exception left it.
Returned == pc \in {"report", "done"}

Ended == pc \in {"done", "failed"}

\* A name made of exactly four digits followed by "full.csv".
IsPartitionName(n) ==
    /\ Len(n) = 12
    /\ \A k \in 1..4 : n[k] \in {"0", "1", "2", "3", "4", "5", "6", "7", "8", "9"}
    /\ <<n[5], n[6], n[7], n[8], n[9], n[10], n[11], n[12]>> = Suffix

\* C1: when stream_to_parquet returns, the rows in the output are as many as the
\* rows of all the partitions together, and total_rows is that number.
C1_RowCount ==
    Returned =>
        /\ Len(contents) = Len(csv_files)
        /\ Len(Rows) = SumRows(contents)
        /\ total_rows = SumRows(contents)

\* A run that returned after two partitions, one of them read in several chunks.
C1_Witness ==
    /\ pc = "done"
    /\ Len(csv_files) >= 2
    /\ \E k \in 1..Len(contents) : contents[k].nrows > CHUNK_SIZE
    /\ total_rows > CHUNK_SIZE

\* C2: every row written carries in its year column the year of the file name it
\* was read from.
C2_YearOfSource ==
    \A k \in 1..Len(Rows) :
        /\ "year" \in DOMAIN Rows[k].cells
        /\ Rows[k].cells["year"] = year_from_name(Rows[k].src)

\* Rows of two partitions are in the output, and the files have a year column of
\* their own.
C2_Witness ==
    /\ \E j, k \in 1..Len(Rows) : Rows[j].src # Rows[k].src
    /\ "year" \in Range(contents[1].header)

\* C5: with no file of the partition pattern in the directory, the run can only
\* end with SystemExit: the loop is never entered, nothing is called on the
\* output, no artifact and no directory is created.
C5_NoPartitions ==
    (\A n \in dirNames : ~IsPartitionName(n)) =>
        /\ pc \in {"start", "found", "failed"}
        /\ pc = "failed" => exc = "SystemExit" /\ exit_status = "nonzero"
        /\ pc # "failed" => exc = "none" /\ exit_status = "running"
        /\ i = 0
        /\ writer = "None"
        /\ log = <<>>
        /\ artifact = NoArtifact
        /\ stdout = <<>>

\* The run has ended on a directory that holds files, none of them a partition.
C5_Witness ==
    /\ pc = "failed"
    /\ exc = "SystemExit"
    /\ Cardinality(Glob(dirNames)) >= 2

\* C6: the writer is opened at most once, and then the first chunk of the first
\* partition is the one being written; every write follows the open and nothing
\* follows the close; a run that opened the writer ends with exactly one close,
\* whether it returned or raised.
C6_WriterLifecycle ==
    /\ Count(log, "open") <= 1
    /\ Count(log, "close") <= 1
    /\ \A k \in 1..Len(log) :
          /\ log[k] = "open" => k < Len(log) /\ log[k + 1] = "write"
          /\ log[k] = "write" => \E j \in 1..(k - 1) : log[j] = "open"
          /\ log[k] = "close" => k = Len(log) /\ \E j \in 1..(k - 1) : log[j] = "open"
    /\ (pc \in {"partition", "chunk"} /\ Count(log, "open") = 0) =>
          Len(contents) <= 1 /\ reader.chunks = 0
    /\ (pc \in {"report", "done", "failed"} /\ Count(log, "open") = 1) =>
          Count(log, "close") = 1

\* A run that wrote several chunks, then raised, and closed the writer.
C6_Witness ==
    /\ pc = "failed"
    /\ Count(log, "write") >= 3
    /\ log[Len(log)] = "close"

PositionOf(name) == CHOOSE k \in 1..Len(csv_files) : csv_files[k] = name

DriverState(p, e) ==
    IF e # "none" THEN "Failed"
    ELSE CASE p = "start" -> "Idle"
           [] p = "found" -> "Discovering"
           [] p \in {"partition", "chunk"} -> "Streaming"
           [] p = "finally" -> "Finalizing"
           [] p \in {"report", "done"} -> "Done"
           [] OTHER -> "Failed"

DriverSteps ==
    { <<"Idle", "Discovering">>, <<"Discovering", "Streaming">>,
      <<"Discovering", "Failed">>, <<"Streaming", "Streaming">>,
      <<"Streaming", "Finalizing">>, <<"Streaming", "Failed">>,
      <<"Finalizing", "Done">>, <<"Finalizing", "Failed">>,
      <<"Done", "Done">>, <<"Failed", "Failed">> }

Succeeded(out) == \E k \in 1..Len(out) : out[k].msg \in {"Combined rows written", "Wrote Parquet to"}

\* C8: the driver moves Idle, Discovering, Streaming, Finalizing, Done; it is Done
\* only with every chunk of every partition written and the writer closed; after
\* a failure it stays Failed, reads and writes no further row, never prints the
\* success messages and exits with a non-zero status.
C8_Driver ==
    /\ [](DriverState(pc, exc) = "Done" =>
            /\ Len(contents) = Len(csv_files)
            /\ Len(Rows) = SumRows(contents)
            /\ Count(log, "write") >= Len(csv_files)
            /\ writer = "closed"
            /\ artifact.finalized)
    /\ [](DriverState(pc, exc) = "Failed" => ~Succeeded(stdout) /\ exit_status # "zero")
    /\ [](pc = "failed" => exit_status = "nonzero")
    /\ [](exit_status = "zero" <=> pc = "done")
    /\ [](pc = "done" => Succeeded(stdout))
    /\ [][ /\ <<DriverState(pc, exc), DriverState(pc', exc')>> \in DriverSteps
           /\ DriverState(pc, exc) = "Failed" =>
                 /\ reader' = reader
                 /\ contents' = contents
                 /\ artifact.rows' = artifact.rows
                 /\ total_rows' = total_rows
                 /\ stdout' = stdout ]_vars

\* A run that failed on an unreadable chunk after rows had been written.
C8_Witness ==
    /\ pc = "failed"
    /\ exc = "UnreadablePartition"
    /\ Len(Rows) > 0
    /\ Len(contents) >= 2

\* C9: find_csvs returns exactly the files named by four digits and the suffix,
\* sorted by name, the others are left out without an exception; year_from_name
\* raises for none of them, and a directory of malformed names only has no
\* partitions.
C9_Locator ==
    /\ exc # "ValueError"
    /\ pc # "start" =>
          /\ Range(csv_files) = {n \in dirNames : IsPartitionName(n)}
          /\ Len(csv_files) = Cardinality(Range(csv_files))
          /\ \A j, k \in 1..Len(csv_files) : j < k => StrLess(csv_files[j], csv_files[k])
          /\ \A k \in 1..Len(csv_files) : ~year_from_name_raises(csv_files[k])
    /\ (pc = "failed" /\ \A n \in dirNames : ~IsPartitionName(n)) => exc = "SystemExit"

\* A partition has been opened in a directory that also holds a file the glob
\* matches and the pattern does not.
C9_Witness ==
    /\ Len(contents) >= 1
    /\ \E n \in Glob(dirNames) : ~IsPartitionName(n)

\* C10: when main has printed its two messages, the output file was created and
\* finalized by this run: the writer was opened and closed.
C10_DoneHasArtifact ==
    Succeeded(stdout) =>
        /\ pc = "done"
        /\ artifact.exists
        /\ artifact.finalized
        /\ writer = "closed"
        /\ Count(log, "open") = 1
        /\ Count(log, "close") = 1

\* A run that ended Done with no row at all: every partition holds its header only.
C10_Witness ==
    /\ pc = "done"
    /\ Len(csv_files) >= 2
    /\ total_rows = 0

RECURSIVE AppendNew(_, _)
AppendNew(schema, columns) ==
    IF columns = <<>> THEN schema
    ELSE AppendNew(IF columns[1] \in Range(schema) THEN schema
                   ELSE Append(schema, columns[1]),
                   Tail(columns))

\* The union of the headers of the first n partitions, first seen first.
RECURSIVE UnionOfHeaders(_)
UnionOfHeaders(n) ==
    IF n = 0 THEN <<>> ELSE AppendNew(UnionOfHeaders(n - 1), contents[n].header)

CanonicalSchema == AppendNew(UnionOfHeaders(Len(contents)), <<"year">>)

DifferentColumnSets ==
    \E j, k \in 1..Len(contents) : Range(contents[j].header) # Range(contents[k].header)

\* C3: a run over partitions of different column sets, with no I/O failure, ends
\* Done with the union of the columns (first seen first) and the year as the
\* schema of the output, every row of every partition written, and null in the
\* columns a row's partition does not have.
C3_UnionSchema ==
    (/\ Ended
     /\ DifferentColumnSets
     /\ exc \notin {"UnreadablePartition", "WriteFailure", "CloseFailure"}) =>
        /\ pc = "done"
        /\ artifact.schema = CanonicalSchema
        /\ Len(Rows) = SumRows(contents)
        /\ \A k \in 1..Len(Rows) :
              /\ DOMAIN Rows[k].cells = Range(CanonicalSchema)
              /\ \A c \in Range(CanonicalSchema) \ {"year"} :
                    c \notin Range(contents[PositionOf(Rows[k].src)].header) =>
                        Rows[k].cells[c] = "null"

\* C4: a run that raised after the writer was opened and rows were written does
\* not leave a finalized file at OUTPUT_PATH holding those rows: the file is
\* absent or has no footer.
C4_NoFinalizedPartial ==
    (pc = "failed" /\ Count(log, "open") >= 1 /\ Len(Rows) > 0) =>
        ~(artifact.exists /\ artifact.finalized)

====
